---- MODULE Spec2Model ----
(***************************************************************************)
(* A model of AsyncCell<T> (zebp/async-cell): a single-slot cell with      *)
(* load / take / peek / insert / orInsert / subscribe.                     *)
(*                                                                         *)
(* Every public method runs to completion on the JavaScript event loop,    *)
(* so each method call is one action.  The `then` callback that orInsert   *)
(* attaches to an asynchronous producer is a separate, later action.       *)
(***************************************************************************)
EXTENDS Integers, Sequences, FiniteSets, TLC

(* ---------------------------- bounds ----------------------------------- *)
MaxCalls == 3        \* load()/take() calls made over a run
MaxProducers == 2    \* asynchronous producers outstanding at once
MaxSubs == 2         \* registered subscriptions

(* ---------------------------- values ----------------------------------- *)
Undefined == -1      \* JavaScript `undefined`: the empty slot / no argument
Values == {0, 1}     \* T: a falsy-but-present value and a truthy one; the
                     \* cell only ever compares a value with `undefined`
OptValues == Values \cup {Undefined}

Takes == "takes"
Loads == "loads"
ResolvePriority == {Takes, Loads}

VARIABLES
  priority,          \* #priority
  inner,             \* #inner
  pendingInsertion,  \* #pendingInsertion
  subscriptions,     \* #subscriptions
  resolvers,         \* #resolvers: [takes |-> queue, loads |-> queue]
  promises,          \* the promises handed out by load()/take(), by call number
  producers,         \* promises returned by orInsert producers whose result is
                     \* not committed: how many are pending, how many rejected
  deliveries,        \* how many take() calls received the latest inserted value
  events,            \* what the last call did, in order: notifications, resolutions
  last               \* the last call: operation, argument, outcome

vars == <<priority, inner, pendingInsertion, subscriptions, resolvers,
          promises, producers, deliveries, events, last>>

(* ---------------------------- helpers ---------------------------------- *)

\* `!value`: a truthiness test, which also takes 0 for "no value"
IsFalsy(value) == value = Undefined \/ value = 0

\* `value === undefined`
IsUndefined(value) == value = Undefined

\* A promise created by load()/take().  The value it settles with is seen
\* where it settles: in `last.ret` (at once) or in a "resolve" event.
NewPromise(kind, settled) == [kind |-> kind, settled |-> settled]

InSeq(x, s) == \E k \in 1 .. Len(s) : s[k] = x

\* resolver(value) for every resolver in `ids`
Settle(ps, ids) ==
  [i \in 1 .. Len(ps) |->
     IF InSeq(i, ids) THEN [ps[i] EXCEPT !.settled = TRUE] ELSE ps[i]]

\* the subscribers are handed the new value as the previous one too
NotifyStalePrev(subs, value, prevValue, slot) ==
  [i \in 1 .. Len(subs) |->
     [type |-> "notify", who |-> subs[i], value |-> value,
      prev |-> value, slot |-> slot]]

\* the subscribers are called before the slot is assigned
NotifyBeforeSet(subs, value, prevValue, slot) ==
  [i \in 1 .. Len(subs) |->
     [type |-> "notify", who |-> subs[i], value |-> value,
      prev |-> prevValue, slot |-> prevValue]]

\* subscriptions.forEach((subscription) => subscription(value, prevValue))
NotifyEvents(subs, value, prevValue, slot) ==
  [i \in 1 .. Len(subs) |->
     [type |-> "notify", who |-> subs[i], value |-> value,
      prev |-> prevValue, slot |-> slot]]

\* resolvers.forEach((resolver) => resolver(this.#inner))
ResolveEvents(ids, value, slot) ==
  [i \in 1 .. Len(ids) |->
     [type |-> "resolve", who |-> ids[i], value |-> value,
      prev |-> Undefined, slot |-> slot]]

\* an insert that never checks the pending-insertion flag
InsertNeverBlocked(pending) == FALSE

\* `if (this.#pendingInsertion) throw new PendingInsertionError()`
InsertBlocked(pending) == pending

\* loads are never resolved ahead of the take
ResolveLoadsFirstNever == FALSE

\* `if (this.#priority === ResolvePriority.Loads)`
ResolveLoadsFirst == priority = Loads

\* the whole take queue is drained instead of one resolver shifted off
ShiftedTakesAll(q) == q

\* `this.#resolvers.takes.shift()`: the resolvers taken off the queue
ShiftedTakes(q) == IF q = <<>> THEN <<>> ELSE <<Head(q)>>

\* loads are left queued even when no take was waiting
ResolveLoadsAfterNever(takeResolved) == FALSE

\* `if` instead of `else if`: loads are resolved although a take was
ResolveLoadsAfterAlways(takeResolved) == priority = Takes

\* `else if (this.#priority === ResolvePriority.Takes)`
ResolveLoadsAfter(takeResolved) == ~takeResolved /\ priority = Takes

\* insert goes on to the waiters after a clear
NeverReturnsEarly(slot) == FALSE

\* `if (this.#inner === undefined) return;` in insert
ReturnsEarly(slot) == slot = Undefined

\* The body of insert(value) after the pending-insertion guard, as the
\* record of everything it changes.
InsertBody(value) ==
  LET prevValue == inner
      newInner  == IF IsUndefined(value) THEN Undefined ELSE value
      notes     == NotifyEvents(subscriptions, newInner, prevValue, newInner)
  IN
  IF ReturnsEarly(newInner)
    THEN [inner |-> newInner, resolvers |-> resolvers,
          promises |-> promises, events |-> notes, deliveries |-> 0]
    ELSE
      LET first   == IF ResolveLoadsFirst THEN resolvers.loads ELSE <<>>
          loads1  == IF ResolveLoadsFirst THEN <<>> ELSE resolvers.loads
          shifted == ShiftedTakes(resolvers.takes)
          takes1  == SubSeq(resolvers.takes, Len(shifted) + 1,
                            Len(resolvers.takes))
          took    == shifted # <<>>
          after   == IF ResolveLoadsAfter(took) THEN loads1 ELSE <<>>
          loads2  == IF ResolveLoadsAfter(took) THEN <<>> ELSE loads1
      IN [inner |-> newInner,   \* a resolved take does not clear the slot
          deliveries |-> Len(shifted),
          resolvers |-> [takes |-> takes1, loads |-> loads2],
          promises |-> Settle(promises, first \o shifted \o after),
          events |-> notes \o ResolveEvents(first, newInner, newInner)
                          \o ResolveEvents(shifted, newInner, newInner)
                          \o ResolveEvents(after, newInner, newInner)]

\* insert(value) called while #pendingInsertion is `pending`: either the
\* PendingInsertionError is thrown and nothing is touched, or the body runs.
InsertCall(pending, value) ==
  IF InsertBlocked(pending)
    THEN [err |-> TRUE, inner |-> inner, resolvers |-> resolvers,
          promises |-> promises, events |-> <<>>, deliveries |-> deliveries]
    ELSE [err |-> FALSE] @@ InsertBody(value)

\* orInsert without its early return
CellNeverFull == FALSE

\* `if (this.#inner !== undefined) return;` at the top of orInsert
CellFull == inner # Undefined

\* the producer was invoked: `const output = func()`
InvokeEvent(output) ==
  <<[type |-> "invoke", who |-> Undefined, value |-> output,
     prev |-> Undefined, slot |-> inner]>>

\* the `then` callback forgets to clear the flag
PendingLeftSet == TRUE

\* `this.#pendingInsertion = false` in the `then` callback
PendingAfterSettle == FALSE

\* producers started by orInsert whose result has not been committed
Outstanding == producers.pending + producers.rejected

\* take() forgets to reset the slot
SlotKeptAfterTake == inner

\* `this.#inner = undefined` in take()
SlotAfterTake == Undefined

Call(op, arg, err, ret) == [op |-> op, arg |-> arg, err |-> err, ret |-> ret]

(* ---------------------------- initial state ---------------------------- *)

\* constructor(value?, priority = ResolvePriority.Takes)
Init ==
  /\ priority \in ResolvePriority
  /\ inner \in OptValues
  /\ pendingInsertion = FALSE
  /\ subscriptions = <<>>
  /\ resolvers = [takes |-> <<>>, loads |-> <<>>]
  /\ promises = <<>>
  /\ producers = [pending |-> 0, rejected |-> 0]
  /\ deliveries = 0
  /\ events = <<>>
  /\ last = Call("new", inner, FALSE, Undefined)

(* ---------------------------- operations ------------------------------- *)

\* load()
Load ==
  /\ Len(promises) < MaxCalls
  /\ LET id == Len(promises) + 1 IN
     IF inner # Undefined
       THEN /\ promises' = Append(promises, NewPromise(Loads, TRUE))
            /\ resolvers' = resolvers
            /\ last' = Call("load", id, FALSE, inner)
       ELSE /\ promises' = Append(promises, NewPromise(Loads, FALSE))
            /\ resolvers' = [resolvers EXCEPT !.loads = Append(@, id)]
            /\ last' = Call("load", id, FALSE, Undefined)
  /\ events' = <<>>
  /\ UNCHANGED <<priority, inner, pendingInsertion, subscriptions, producers,
                 deliveries>>

\* take()
Take ==
  /\ Len(promises) < MaxCalls
  /\ LET id == Len(promises) + 1 IN
     IF inner # Undefined
       THEN /\ promises' = Append(promises, NewPromise(Takes, TRUE))
            /\ inner' = SlotAfterTake
            /\ resolvers' = resolvers
            /\ deliveries' = deliveries + 1
            /\ last' = Call("take", id, FALSE, inner)
       ELSE /\ promises' = Append(promises, NewPromise(Takes, FALSE))
            /\ inner' = inner
            /\ resolvers' = [resolvers EXCEPT !.takes = Append(@, id)]
            /\ deliveries' = deliveries
            /\ last' = Call("take", id, FALSE, Undefined)
  /\ events' = <<>>
  /\ UNCHANGED <<priority, pendingInsertion, subscriptions, producers>>

\* peek()
Peek ==
  /\ last' = Call("peek", Undefined, FALSE, inner)
  /\ events' = <<>>
  /\ UNCHANGED <<priority, inner, pendingInsertion, subscriptions, resolvers,
                 promises, producers, deliveries>>

\* insert(value)
Insert(value) ==
  LET r == InsertCall(pendingInsertion, value) IN
  /\ inner' = r.inner
  /\ resolvers' = r.resolvers
  /\ promises' = r.promises
  /\ deliveries' = r.deliveries
  /\ events' = r.events
  /\ last' = Call("insert", value, r.err, Undefined)
  /\ UNCHANGED <<priority, pendingInsertion, subscriptions, producers>>

\* orInsert(func) where func() returns the plain value `output`
OrInsertSync(output) ==
  IF CellFull
    THEN /\ last' = Call("orInsert", output, FALSE, Undefined)
         /\ events' = <<>>
         /\ UNCHANGED <<priority, inner, pendingInsertion, subscriptions,
                        resolvers, promises, producers, deliveries>>
    ELSE LET r == InsertCall(pendingInsertion, output) IN
         /\ inner' = r.inner
         /\ resolvers' = r.resolvers
         /\ promises' = r.promises
         /\ deliveries' = r.deliveries
         /\ events' = InvokeEvent(output) \o r.events
         /\ last' = Call("orInsert", output, r.err, Undefined)
         /\ UNCHANGED <<priority, pendingInsertion, subscriptions, producers>>

\* orInsert(func) where func() returns a promise
OrInsertAsync ==
  IF CellFull
    THEN /\ last' = Call("orInsertAsync", Undefined, FALSE, Undefined)
         /\ events' = <<>>
         /\ UNCHANGED <<priority, inner, pendingInsertion, subscriptions,
                        resolvers, promises, producers, deliveries>>
    ELSE /\ Outstanding < MaxProducers
         /\ pendingInsertion' = TRUE
         /\ producers' = [producers EXCEPT !.pending = @ + 1]
         /\ events' = InvokeEvent(Undefined)
         /\ last' = Call("orInsertAsync", Undefined, FALSE, Undefined)
         /\ UNCHANGED <<priority, inner, subscriptions, resolvers, promises,
                        deliveries>>

\* a pending producer fulfils with `value`; its `then` callback runs
Commit(value) ==
  /\ producers.pending > 0
  /\ LET pending == PendingAfterSettle
         r == InsertCall(pending, value) IN
     /\ pendingInsertion' = pending
     /\ inner' = r.inner
     /\ resolvers' = r.resolvers
     /\ promises' = r.promises
     /\ deliveries' = r.deliveries
     /\ events' = r.events
     /\ last' = Call("commit", value, r.err, Undefined)
  /\ producers' = [producers EXCEPT !.pending = @ - 1]
  /\ UNCHANGED <<priority, subscriptions>>

\* a pending producer rejects: `then(onFulfilled)` never calls back
Reject ==
  /\ producers.pending > 0
  /\ producers' = [producers EXCEPT !.pending = @ - 1, !.rejected = @ + 1]
  /\ last' = Call("reject", Undefined, FALSE, Undefined)
  /\ events' = <<>>
  /\ UNCHANGED <<priority, inner, pendingInsertion, subscriptions, resolvers,
                 promises, deliveries>>

\* subscribe(...subs) with n new callbacks; a callback is named by its
\* registration number
Subscribe(n) ==
  /\ Len(subscriptions) + n <= MaxSubs
  /\ LET subs == [k \in 1 .. n |-> Len(subscriptions) + k] IN
     /\ subscriptions' = subscriptions \o subs
     /\ last' = Call("subscribe", subs, FALSE, Undefined)
  /\ events' = <<>>
  /\ UNCHANGED <<priority, inner, pendingInsertion, resolvers, promises,
                 producers, deliveries>>

Next ==
  \/ Load
  \/ Take
  \/ Peek
  \/ \E value \in OptValues : Insert(value)
  \/ \E output \in Values : OrInsertSync(output)
  \/ OrInsertAsync
  \/ \E value \in Values : Commit(value)
  \/ Reject
  \/ \E n \in 1 .. MaxSubs : Subscribe(n)

Spec == Init /\ [][Next]_vars

\* a producer's promise settles: it fulfils (and the callback runs) or rejects
ProducerSettles == (\E value \in Values : Commit(value)) \/ Reject

\* every promise returned by a producer eventually settles
FairSpec == Spec /\ WF_vars(ProducerSettles)

(* ---------------------------- observations ----------------------------- *)

Ids == [i \in 1 .. Len(promises) |-> i]

\* the promises of the given kind that are not settled, oldest first
PendingOf(kind) ==
  LET Test(i) == promises[i].kind = kind /\ ~promises[i].settled
  IN SelectSeq(Ids, Test)

\* the resolutions the last call made of promises of the given kind, in order
ResolutionsOf(kind) ==
  LET Test(e) == e.type = "resolve" /\ promises[e.who].kind = kind
  IN SelectSeq(events, Test)

TakeResolutions == ResolutionsOf(Takes)
LoadResolutions == ResolutionsOf(Loads)

\* the last call was insert(v) with a present v, and it was applied
DirectInsert ==
  last.op = "insert" /\ ~last.err /\ last.arg \in Values

\* the last call placed a present value: insert, orInsert with a plain value
\* on an empty cell, or the commit of an asynchronous producer
InsertApplied ==
  /\ last.op \in {"insert", "orInsert", "commit"}
  /\ ~last.err
  /\ last.arg \in Values
  /\ last.op = "orInsert" => events # <<>>

\* at most one take was resolved, the oldest, with value v; the others are
\* still queued, in their order of arrival
OneTakeResolved(v) ==
  LET tr == TakeResolutions IN
  /\ Len(tr) <= 1
  /\ Len(tr) = 1 =>
       /\ tr[1].value = v
       /\ \A k \in 1 .. Len(resolvers.takes) : tr[1].who < resolvers.takes[k]
  /\ Len(tr) = 0 => resolvers.takes = <<>>
  /\ resolvers.takes = PendingOf(Takes)

\* every load waiter was resolved with v and none is left
AllLoadsResolved(v) ==
  /\ resolvers.loads = <<>>
  /\ PendingOf(Loads) = <<>>
  /\ \A k \in 1 .. Len(LoadResolutions) : LoadResolutions[k].value = v

\* q is a prefix of r
IsPrefix(q, r) ==
  Len(q) <= Len(r) /\ \A k \in 1 .. Len(q) : q[k] = r[k]

(* ---------------------------- claims ----------------------------------- *)

\* C1: no double take among queued waiters.  After an applied insert(v)
\* with a present v (0 included), under either priority, at most one queued
\* take was resolved; if any take was queued exactly one was, it is the
\* oldest, it received v, and the other take waiters are still pending in
\* their original order.
C1_NoDoubleTake == DirectInsert => OneTakeResolved(last.arg)

\* three takes were queued and insert(0) resolved the first one only
C1_Witness ==
  /\ DirectInsert /\ last.arg = 0
  /\ Len(TakeResolutions) = 1 /\ TakeResolutions[1].who = 1
  /\ resolvers.takes = <<2, 3>>

\* C2: when insert(v) resolves a queued take waiter the slot is not left
\* holding v: right after that insert peek() returns empty.
C2_SlotClearedAfterTakeResolved ==
  (DirectInsert /\ Len(TakeResolutions) > 0) => inner = Undefined

\* C3: exactly-one delivery per inserted value.  In every interleaving the
\* value placed by one insertion (initial value, insert, orInsert commit) is
\* received by at most one take, queued or immediate; so completed takes
\* never outnumber the present values inserted.
C3_ExactlyOneDelivery == deliveries <= 1

\* C4: take-over-load under the takes priority.  If an applied insert(v)
\* resolved a take waiter, it resolved the oldest one with v and no load
\* waiter: every load waiter is still queued, in order; and a load waiter
\* leaves the queue only in a later applied insertion.
C4_LoadsKeptState ==
  (priority = Takes /\ DirectInsert /\ Len(TakeResolutions) > 0) =>
     /\ OneTakeResolved(last.arg)
     /\ LoadResolutions = <<>>
     /\ resolvers.loads = PendingOf(Loads)

C4_LoadsKeptStep ==
  priority = Takes => (IsPrefix(resolvers.loads, resolvers'.loads) \/ InsertApplied')

C4_TakeOverLoad == []C4_LoadsKeptState /\ [][C4_LoadsKeptStep]_vars

\* a take and two loads were pending; insert resolved the take, both loads wait
C4_Witness ==
  /\ priority = Takes /\ DirectInsert
  /\ Len(TakeResolutions) = 1
  /\ Len(resolvers.loads) = 2

\* C5: load-over-take under the loads priority.  An applied insert(v)
\* resolves every pending load waiter with v and empties the load queue,
\* each load before the take, and then resolves exactly the oldest take
\* waiter with the same v; the other take waiters stay pending.
C5_LoadOverTake ==
  (priority = Loads /\ DirectInsert) =>
     /\ AllLoadsResolved(last.arg)
     /\ OneTakeResolved(last.arg)
     /\ \A i, j \in 1 .. Len(events) :
          (/\ events[i].type = "resolve" /\ events[j].type = "resolve"
           /\ promises[events[i].who].kind = Loads
           /\ promises[events[j].who].kind = Takes) => i < j

\* a load and two takes were pending: the load and the older take got v
C5_Witness ==
  /\ priority = Loads /\ DirectInsert
  /\ Len(LoadResolutions) = 1
  /\ Len(TakeResolutions) = 1
  /\ Len(resolvers.takes) = 1

\* C6: load broadcast.  Under either priority, an applied insert(v) that
\* found no take waiter resolves every queued load with v, leaves the load
\* queue empty and leaves v in the slot.
C6_LoadBroadcast ==
  (DirectInsert /\ TakeResolutions = <<>> /\ resolvers.takes = <<>>) =>
     /\ AllLoadsResolved(last.arg)
     /\ inner = last.arg

\* three loads were queued and insert(0) resolved them all
C6_Witness ==
  /\ DirectInsert /\ last.arg = 0
  /\ Len(LoadResolutions) = 3
  /\ inner = 0

\* C7: an insert called while pendingInsertion is set throws
\* PendingInsertionError and changes nothing: slot, queues, promises and
\* pendingInsertion stay, no subscriber is called, no waiter resolved.
C7_GuardStep ==
  (last'.op = "insert" /\ pendingInsertion) =>
     /\ last'.err
     /\ events' = <<>>
     /\ UNCHANGED <<inner, resolvers, promises, pendingInsertion,
                    subscriptions, producers, deliveries>>

C7_GuardLeavesCellUntouched == [][C7_GuardStep]_vars

\* a rejected insert(x) with a subscriber registered and a take waiting
C7_Witness ==
  /\ last.op = "insert" /\ last.err /\ last.arg \in Values
  /\ pendingInsertion
  /\ subscriptions # <<>>
  /\ resolvers.takes # <<>>

\* C8: insert throws PendingInsertionError exactly while some producer
\* started by orInsert has not committed its result, also when several
\* orInsert calls overlapped.
C8_RejectedIffOutstanding ==
  last.op = "insert" => (last.err <=> Outstanding > 0)

\* C9: the result r of an asynchronous producer is committed through the
\* insert path: the flag is cleared, nothing is thrown, and the waiters
\* queued meanwhile are resolved as by insert(r): the oldest take with r;
\* the loads with r unless the takes priority gave r to a take.
C9_CommitIsInsert ==
  last.op = "commit" =>
     /\ ~last.err
     /\ ~pendingInsertion
     /\ OneTakeResolved(last.arg)
     /\ (priority = Loads \/ TakeResolutions = <<>>) =>
          AllLoadsResolved(last.arg)
     /\ (priority = Takes /\ TakeResolutions # <<>>) =>
          (LoadResolutions = <<>> /\ resolvers.loads = PendingOf(Loads))
     /\ TakeResolutions = <<>> => inner = last.arg
     /\ \E k \in 0 .. Len(events) :
          /\ \A i \in 1 .. k : events[i].type = "notify"
          /\ \A i \in k + 1 .. Len(events) : events[i].type = "resolve"

\* a single take queued while the producer was in flight received r
C9_Witness ==
  /\ last.op = "commit"
  /\ Len(promises) = 1
  /\ Len(TakeResolutions) = 1
  /\ TakeResolutions[1].value = last.arg

\* C10: orInsert on a full cell is a no-op: the producer is not invoked,
\* nothing is thrown, slot, flag, queues and promises stay and no subscriber
\* is called; a take that follows receives the original value.
C10_NoOpStep ==
  /\ (last'.op \in {"orInsert", "orInsertAsync"} /\ inner # Undefined) =>
        /\ ~last'.err
        /\ events' = <<>>
        /\ UNCHANGED <<inner, resolvers, promises, pendingInsertion,
                       subscriptions, producers, deliveries>>
  /\ (/\ last.op \in {"orInsert", "orInsertAsync"} /\ events = <<>>
      /\ last'.op = "take") =>
        (last'.ret = inner /\ inner # Undefined /\ inner' = Undefined)

C10_OrInsertNoOpWhenFull == [][C10_NoOpStep]_vars

\* orInsert(() => 0) was called on a cell holding 1, with a subscriber
\* registered: the cell still holds 1 and nothing was invoked or notified
C10_Witness ==
  /\ last.op = "orInsert" /\ last.arg = 0 /\ ~last.err
  /\ inner = 1
  /\ events = <<>>
  /\ subscriptions # <<>>

\* the last call ran the body of insert (with a present value or a clear):
\* insert, orInsert with a plain value on an empty cell, or a commit
BodyRan ==
  /\ last.op \in {"insert", "orInsert", "commit"}
  /\ ~last.err
  /\ last.op = "orInsert" => events # <<>>

\* the notifications the last call made, in order
Notifications ==
  LET Test(e) == e.type = "notify" IN SelectSeq(events, Test)

\* C11: orInsert fills the cell only if it is empty: the commit of a
\* producer's result never replaces a value the slot holds at that moment,
\* also when several producers overlap.
C11_CommitStep == (last'.op = "commit" /\ inner # Undefined) => inner' = inner

C11_CommitKeepsHeldValue == [][C11_CommitStep]_vars

\* C12: subscription firing.  Every applied insert (present value or
\* clear; insert, orInsert or commit) calls every registered subscriber
\* exactly once, in registration order, with (newValue, prevValue):
\* newValue the value passed, prevValue the slot just before the call.
C12_FiringStep ==
  BodyRan' =>
    /\ Len(Notifications') = Len(subscriptions)
    /\ \A i \in 1 .. Len(subscriptions) :
         /\ Notifications'[i].who = subscriptions[i]
         /\ Notifications'[i].value = last'.arg
         /\ Notifications'[i].prev = inner
    /\ subscriptions' = subscriptions

C12_SubscriptionFiring == [][C12_FiringStep]_vars

\* a clear of a cell that held 1, with two subscribers: both were called,
\* first registered first, with (undefined, 1)
C12_Witness ==
  /\ last.op = "insert" /\ ~last.err /\ last.arg = Undefined
  /\ Len(subscriptions) = 2
  /\ Len(Notifications) = 2
  /\ Notifications[1].who = 1 /\ Notifications[2].who = 2
  /\ Notifications[1].prev = 1 /\ Notifications[2].prev = 1

\* C13: peek/clear round-trip.  peek returns the slot and changes nothing;
\* after insert(v) that found no take waiter the slot holds v; a take on a
\* full cell completes at once with the slot's value and clears it in the
\* same step; a take on an empty cell stays pending.
C13_RoundTripStep ==
  /\ last'.op = "peek" =>
        /\ last'.ret = inner
        /\ UNCHANGED <<priority, inner, pendingInsertion, subscriptions,
                       resolvers, promises, producers, deliveries>>
  /\ (last'.op = "insert" /\ ~last'.err /\ last'.arg \in Values
        /\ resolvers.takes = <<>>) => inner' = last'.arg
  /\ (last'.op = "take" /\ inner # Undefined) =>
        /\ last'.ret = inner
        /\ inner' = Undefined
        /\ promises' = Append(promises, NewPromise(Takes, TRUE))
        /\ resolvers' = resolvers
  /\ (last'.op = "take" /\ inner = Undefined) =>
        /\ last'.ret = Undefined
        /\ inner' = Undefined
        /\ promises' = Append(promises, NewPromise(Takes, FALSE))
        /\ resolvers' = [resolvers EXCEPT !.takes = Append(@, Len(promises'))]

C13_PeekClearRoundTrip == [][C13_RoundTripStep]_vars

\* take() returned 1 at once and a peek() right after found the slot empty
C13_Witness ==
  /\ last.op = "peek" /\ last.ret = Undefined
  /\ promises = <<NewPromise(Takes, TRUE)>>
  /\ deliveries = 1
  /\ resolvers.takes = <<>>

\* the resolutions the last call made, of either kind, in order
Resolutions ==
  LET Test(e) == e.type = "resolve" IN SelectSeq(events, Test)

\* C14: only a direct insert can fail: orInsert, load, take, peek and
\* subscribe never raise PendingInsertionError (or anything else), also
\* while an earlier asynchronous producer is in flight.
C14_OnlyInsertFails == last.err => last.op = "insert"

\* C15: within one applied insert every subscriber is called after the
\* slot was set to the new value and before any waiter is resolved.
C15_NotifyBeforeResolve ==
  BodyRan =>
    /\ \A i \in 1 .. Len(events) :
         events[i].type = "notify" => events[i].slot = last.arg
    /\ \A i, j \in 1 .. Len(events) :
         (events[i].type = "notify" /\ events[j].type = "resolve") => i < j

\* insert(1) on an empty cell with two subscribers and a waiter: both
\* notifications, then the resolution
C15_Witness ==
  /\ last.op = "insert" /\ ~last.err /\ last.arg = 1
  /\ Len(Notifications) = 2
  /\ Len(Resolutions) >= 1
  /\ Notifications[1].prev = Undefined

\* C16: an applied insert of the empty value sets the slot to empty and
\* notifies the subscribers, but resolves no waiter: both queues and every
\* promise are as before, under either priority.
C16_ClearStep ==
  (last'.op = "insert" /\ ~last'.err /\ last'.arg = Undefined) =>
    /\ inner' = Undefined
    /\ Len(events') = Len(subscriptions)
    /\ \A i \in 1 .. Len(events') : events'[i].type = "notify"
    /\ UNCHANGED <<resolvers, promises, pendingInsertion, subscriptions,
                   producers>>

C16_ClearResolvesNoWaiter == [][C16_ClearStep]_vars

\* a clear with a subscriber registered while a take and a load wait
C16_Witness ==
  /\ last.op = "insert" /\ ~last.err /\ last.arg = Undefined
  /\ Len(Notifications) >= 1
  /\ resolvers.takes # <<>>
  /\ resolvers.loads # <<>>

\* C17: priority has no effect unless both kinds of waiter are pending.
\* With at most one kind pending, what an applied insert(v) does is fixed
\* by the state without its priority: the oldest take, or else every load,
\* is resolved with v, the slot holds v, and the queues are as follows; so
\* two cells that differ only in priority end in the same state.
C17_PriorityFreeStep ==
  (/\ last'.op = "insert" /\ ~last'.err /\ last'.arg \in Values
   /\ (resolvers.takes = <<>> \/ resolvers.loads = <<>>)) =>
    LET rs == IF resolvers.takes # <<>>
                THEN <<Head(resolvers.takes)>> ELSE resolvers.loads
    IN
    /\ inner' = last'.arg
    /\ resolvers' = [takes |-> IF resolvers.takes # <<>>
                                 THEN Tail(resolvers.takes) ELSE <<>>,
                     loads |-> <<>>]
    /\ Len(Resolutions') = Len(rs)
    /\ \A i \in 1 .. Len(rs) :
         Resolutions'[i].who = rs[i] /\ Resolutions'[i].value = last'.arg
    /\ Len(promises') = Len(promises)
    /\ \A i \in 1 .. Len(promises) :
         /\ promises'[i].kind = promises[i].kind
         /\ promises'[i].settled = (promises[i].settled \/ InSeq(i, rs))

C17_PriorityOnlyWhenBothPending == [][C17_PriorityFreeStep]_vars

\* under the loads priority only takes were pending: the oldest got v
C17_Witness ==
  /\ priority = Loads /\ DirectInsert
  /\ Len(TakeResolutions) = 1
  /\ LoadResolutions = <<>>
  /\ resolvers.loads = <<>>
  /\ Len(resolvers.takes) = 2
  /\ \A i \in 1 .. Len(promises) : promises[i].kind = Takes

\* C18: a load never waits while a value is available: whenever the slot
\* holds a value the load queue is empty.
C18_NoLoadWaitsNextToValue == inner # Undefined => resolvers.loads = <<>>

\* C19: a take never waits while a value is available: whenever the slot
\* holds a value the take queue is empty.
C19_NoTakeWaitsNextToValue == inner # Undefined => resolvers.takes = <<>>

\* C20: the pending-insertion window always closes: provided every
\* producer's promise settles, with a value or a failure, whenever
\* pendingInsertion is set it is eventually cleared.
C20_PendingWindowCloses == pendingInsertion ~> ~pendingInsertion

====
